---------------------------- MODULE Spec2Model ----------------------------
(***************************************************************************)
(* A model of the Serato library reader: the tagged-record decoder of      *)
(* read_disk_files.h (read<T>, read<std::string>, read_repeated<T>,        *)
(* readFromPath<T>, kFields<T>) and the library assembly of                *)
(* seratocrates.cpp (CrateReader, readLibrary).                            *)
(*                                                                         *)
(* Bytes are integers 0..255, a file is a sequence of bytes, a decoded     *)
(* text is the sequence of its UTF-8 bytes.  Track objects live in a heap  *)
(* and are referred to by their index (the identity of a shared_ptr).      *)
(***************************************************************************)
EXTENDS Integers, Sequences, FiniteSets, TLC

\* ------------------------------------------------------------------ bounds
\* Most records (at any depth) in an undamaged generated stream.
MaxRecs == 3
\* Most records in a stream that is then damaged (cut short / length rewritten).
MaxDmgRecs == 2
\* Most bytes cut off the end of a damaged stream.
MaxCut == 9
\* Most database tracks / crate references / crate files in a library input.
MaxTracks == 2
MaxRefs == 3
MaxCrates == 3

\* ------------------------------------------------------- program constants
kTagSize == 4
kRecordSizeSize == 4
\* 4-byte ASCII tags
TagVrsn == <<118, 114, 115, 110>>
TagOtrk == <<111, 116, 114, 107>>
TagPfil == <<112, 102, 105, 108>>
TagPtrk == <<112, 116, 114, 107>>
\* a tag no schema knows
TagXxxx == <<120, 120, 120, 120>>

None == "none"
\* A record that does not exist (yet, or any more).
nullptr == [null |-> TRUE]

Min(a, b) == IF a < b THEN a ELSE b
Last(s) == s[Len(s)]
Range(s) == {s[i] : i \in 1..Len(s)}

\* F(v) for the value v of an expression that is evaluated once.
With(v, F(_)) == CHOOSE r \in {F(x) : x \in {v}} : TRUE

RECURSIVE Concat(_)
Concat(ss) == IF ss = <<>> THEN <<>> ELSE Head(ss) \o Concat(Tail(ss))

\* ------------------------------------------------------------------ schema
\* (one track table for both kinds of track: the path under either tag)
kFieldsOneTrackTable(T) ==
  CASE T \in {"Track", "CrateFileTrack"} ->
         (TagPfil :> [member |-> "path", readfunc |-> "read_string"]) @@
         (TagPtrk :> [member |-> "path", readfunc |-> "read_string"])
    [] T = "CrateFile" ->
         (TagVrsn :> [member |-> "version", readfunc |-> "read_string"]) @@
         (TagOtrk :> [member |-> "tracks", readfunc |-> "read_repeated_CrateFileTrack"])
    [] T = "DatabaseFile" ->
         (TagVrsn :> [member |-> "version", readfunc |-> "read_string"]) @@
         (TagOtrk :> [member |-> "tracks", readfunc |-> "read_repeated_shared_ptr_Track"])

\* kFields<T>: tag -> (member, readfunc), one table per record type.
kFields(T) ==
  CASE T = "Track" ->
         (TagPfil :> [member |-> "path", readfunc |-> "read_string"])
    [] T = "CrateFileTrack" ->
         (TagPtrk :> [member |-> "path", readfunc |-> "read_string"])
    [] T = "CrateFile" ->
         (TagVrsn :> [member |-> "version", readfunc |-> "read_string"]) @@
         (TagOtrk :> [member |-> "tracks", readfunc |-> "read_repeated_CrateFileTrack"])
    [] T = "DatabaseFile" ->
         (TagVrsn :> [member |-> "version", readfunc |-> "read_string"]) @@
         (TagOtrk :> [member |-> "tracks", readfunc |-> "read_repeated_shared_ptr_Track"])

\* ------------------------------------------------------------- size_t values
\* Byte counts (record_size, bytes, bytes_read, the file position) are size_t /
\* long values: 64 bit on the LP64 builds the code targets (it hands
\* std::filesystem::path::native() to fopen, so it builds on POSIX only).  A
\* count is kept as <<hi, lo>> = hi * 2^24 + lo with 0 <= lo < 2^24, so that
\* lengths up to 2^32 - 1 and sums of them are exact.  No run over a finite
\* list of records can reach 2^64, hence no wrap-around.
B24 == 256 * 256 * 256
Sz(n) == <<n \div B24, n % B24>>
SzZero == Sz(0)
SzAdd(a, b) == <<a[1] + b[1] + ((a[2] + b[2]) \div B24), (a[2] + b[2]) % B24>>
SzLess(a, b) == a[1] < b[1] \/ (a[1] = b[1] /\ a[2] < b[2])
SzLeq(a, b) == a = b \/ SzLess(a, b)
\* x << 8
SzShl8(a) == <<a[1] * 256 + (a[2] \div 65536), (a[2] % 65536) * 256>>
\* 2 * (x / 2)
SzEvenPart(a) == <<a[1], a[2] - (a[2] % 2)>>
\* the int value of a count known to be small
SzInt(a) == a[1] * B24 + a[2]

\* ------------------------------------------------------------ text decoding
\* (the two bytes taken low byte first)
CodeUnitLittleEndian(b1, b2) == b2 * 256 + b1
\* One char16_t from two bytes: c |= b << 8; c |= b.
CodeUnit(b1, b2) == b1 * 256 + b2

IsHighSurrogate(u) == u >= 55296 /\ u <= 56319
IsLowSurrogate(u) == u >= 56320 /\ u <= 57343

\* UTF-8 bytes of one code point.
Utf8OfCodePoint(c) ==
  IF c < 128 THEN <<c>>
  ELSE IF c < 2048 THEN <<192 + (c \div 64), 128 + (c % 64)>>
  ELSE IF c < 65536 THEN
    <<224 + (c \div 4096), 128 + ((c \div 64) % 64), 128 + (c % 64)>>
  ELSE <<240 + (c \div 262144), 128 + ((c \div 4096) % 64),
         128 + ((c \div 64) % 64), 128 + (c % 64)>>

\* std::wstring_convert<std::codecvt_utf8_utf16<char16_t>, char16_t>::to_bytes:
\* the UTF-8 bytes of a UTF-16 string, or a std::range_error when a surrogate
\* is unpaired (ok = FALSE).
RECURSIVE to_bytes(_)
to_bytes(str) ==
  With(str, LAMBDA u :
    IF u = <<>> THEN [ok |-> TRUE, bytes |-> <<>>]
    ELSE IF IsHighSurrogate(u[1]) THEN
      IF Len(u) >= 2 /\ IsLowSurrogate(u[2]) THEN
        With(to_bytes(SubSeq(u, 3, Len(u))), LAMBDA rest :
          [ok |-> rest.ok,
           bytes |-> Utf8OfCodePoint(65536 + (u[1] - 55296) * 1024 + (u[2] - 56320))
                       \o rest.bytes])
      ELSE [ok |-> FALSE, bytes |-> <<>>]
    ELSE IF IsLowSurrogate(u[1]) THEN [ok |-> FALSE, bytes |-> <<>>]
    ELSE With(to_bytes(Tail(u)), LAMBDA rest :
           [ok |-> rest.ok, bytes |-> Utf8OfCodePoint(u[1]) \o rest.bytes]))

\* The char16_t string read<std::string> builds from 2n payload bytes.
CodeUnits(b) == [i \in 1..(Len(b) \div 2) |-> CodeUnit(b[2 * i - 1], b[2 * i])]

\* ------------------------------------------------------------- file names
\* A file name is a sequence of character codes.  std::filesystem::path's
\* extension() is the part from the last '.', unless the name has no '.', or
\* its only '.' is the first character, or the name is "." or "..";
\* stem() is the rest.
Dot == <<46>>
DotPositions(f) == {i \in 1..Len(f) : f[i] = Dot[1]}
LastDot(f) ==
  IF DotPositions(f) = {} THEN 0
  ELSE CHOOSE i \in DotPositions(f) : \A j \in DotPositions(f) : j <= i
HasExtension(f) == LastDot(f) > 1 /\ f # Dot \o Dot
extension(f) == IF HasExtension(f) THEN SubSeq(f, LastDot(f), Len(f)) ELSE <<>>
stem(f) == IF HasExtension(f) THEN SubSeq(f, 1, LastDot(f) - 1) ELSE f
\* ".crate"
DotCrate == <<46, 99, 114, 97, 116, 101>>

\* ------------------------------------------------------------------- state
VARIABLES
  fs,              \* the directory tree handed to readLibrary (never changes)
  src,             \* how fs was built: the record trees its files serialise
  pc,              \* "start", "read", "crates", "done" or "error"
  err,             \* the exception that ended the call, or None
  reading,         \* the T of the running readFromPath<T>, or None
  file,            \* bytes of the FILE* in ctx
  pos,             \* its file position
  open,            \* FILE handles fopen()ed and not fclose()d
  stack,           \* the active read<T> calls, innermost last
  heap,            \* Track objects made by make_shared, by identity
  database_file,   \* the DatabaseFile being / having been decoded
  crate_file,      \* the CrateFile being / having been decoded
  path_to_track_,  \* CrateReader::path_to_track_
  ret,             \* the Library readLibrary builds
  idx,             \* entries of Subcrates the directory_iterator has passed
  returned         \* history: the bytes and the CrateFile of each
                   \* readFromPath<CrateFile> call that has returned

vars == <<fs, src, returned, pc, err, reading, file, pos, open, stack, heap,
          database_file, crate_file, path_to_track_, ret, idx>>

EmptyMap == [p \in {} |-> 0]

\* -------------------------------------------------------- pure code pieces
\* record_size of read<T>: for each of the kRecordSizeSize bytes,
\* record_size <<= 8; record_size += byte.
RecordSizeNoShift(b) ==
  LET RECURSIVE acc(_)
      acc(i) == IF i = 0 THEN SzZero
                ELSE With(acc(i - 1), LAMBDA r : SzAdd(r, Sz(b[i])))
  IN acc(kRecordSizeSize)

RecordSize(b) ==
  LET RECURSIVE acc(_)
      \* (r: the value of record_size before this pass of the loop)
      acc(i) == IF i = 0 THEN SzZero
                ELSE With(acc(i - 1), LAMBDA r : SzAdd(SzShl8(r), Sz(b[i])))
  IN acc(kRecordSizeSize)

\* Bytes a read at the current position can still get (0 at or past EOF).
Avail == IF pos[1] = 0 /\ pos[2] < Len(file) THEN Len(file) - pos[2] ELSE 0

\* The frame of a read<T> call: obj names the object it fills (0: the root
\* record, k: the k-th Track of the heap / k-th CrateFileTrack), start is
\* the file position at entry.
Frame(T, bytes, obj) ==
  [T |-> T, bytes |-> bytes, bytes_read |-> SzZero, obj |-> obj, start |-> pos]

Top == stack[Len(stack)]
AtLoopHead == pc = "read" /\ stack # <<>>
\* (a loop that runs once too often: bytes_read <= bytes)
InLoopBodyOffByOne == AtLoopHead /\ SzLeq(Top.bytes_read, Top.bytes)
\* while (bytes_read < bytes)
InLoopBody == AtLoopHead /\ SzLess(Top.bytes_read, Top.bytes)

\* The header of the record at the current position (when Avail >= 8).
Tag == SubSeq(file, pos[2] + 1, pos[2] + kTagSize)
SizeBytes == SubSeq(file, pos[2] + kTagSize + 1, pos[2] + kTagSize + kRecordSizeSize)
record_size == RecordSize(SizeBytes)
HeaderSize == Sz(kTagSize + kRecordSizeSize)
PayloadPos == SzAdd(pos, HeaderSize)
HasHeader == InLoopBody /\ Avail >= kTagSize + kRecordSizeSize
Known == Tag \in DOMAIN kFields(Top.T)
field == kFields(Top.T)[Tag]

\* (the count without the header: bytes_read += record_size only)
CountedPayloadOnly(size) ==
  [stack EXCEPT ![Len(stack)].bytes_read = SzAdd(@, size)]

\* bytes_read += kTagSize; += kRecordSizeSize; += record_size
Counted(size) ==
  [stack EXCEPT ![Len(stack)].bytes_read = SzAdd(SzAdd(@, HeaderSize), size)]

\* (a best-effort reader: a crate file that cannot be opened or decoded is
\* left out and the directory loop goes on; only a database failure ends
\* the call)
ThrowSkippingCrate(kind) ==
  /\ stack' = <<>>
  /\ reading' = None
  /\ UNCHANGED <<fs, src, returned, file>>
  /\ IF pc = "crates" \/ reading = "CrateFile"
     THEN /\ pc' = "crates"
          /\ idx' = idx + 1
          /\ UNCHANGED <<err, heap, database_file, crate_file, path_to_track_, ret>>
     ELSE /\ pc' = "error"
          /\ err' = kind
          /\ heap' = <<>>
          /\ database_file' = nullptr
          /\ crate_file' = nullptr
          /\ path_to_track_' = EmptyMap
          /\ ret' = nullptr
          /\ UNCHANGED idx

\* An exception leaves readLibrary: every local (the records, the Library,
\* the CrateReader) is destroyed.  Nothing closes a FILE* on this path: the
\* caller says what happens to open and to the file position.
Throw(kind) ==
  /\ pc' = "error"
  /\ err' = kind
  /\ stack' = <<>>
  /\ reading' = None
  /\ heap' = <<>>
  /\ database_file' = nullptr
  /\ crate_file' = nullptr
  /\ path_to_track_' = EmptyMap
  /\ ret' = nullptr
  /\ UNCHANGED <<fs, src, returned, file, idx>>

\* ------------------------------------------------------ read<T>: the loop
\* while (bytes_read < bytes) fails: the call returns to its caller.
ReadReturn ==
  /\ AtLoopHead
  /\ ~InLoopBody
  /\ stack' = SubSeq(stack, 1, Len(stack) - 1)
  /\ UNCHANGED <<fs, src, returned, pc, err, reading, file, pos, open, heap,
                 database_file, crate_file, path_to_track_, ret, idx>>

\* fread() gets fewer than kTagSize bytes.
ReadTagTruncated ==
  /\ InLoopBody
  /\ Avail < kTagSize
  /\ pos' = SzAdd(pos, Sz(Avail))
  /\ UNCHANGED open
  /\ Throw("ReadException")

\* fgetc() returns EOF inside the 4 size bytes.
ReadSizeTruncated ==
  /\ InLoopBody
  /\ Avail >= kTagSize
  /\ Avail < kTagSize + kRecordSizeSize
  /\ pos' = SzAdd(pos, Sz(Avail))
  /\ UNCHANGED open
  /\ Throw("ReadException")

\* (the skip without its fseek)
SkipUnknownFieldNoSeek ==
  /\ HasHeader
  /\ ~Known
  /\ pos' = PayloadPos
  /\ stack' = Counted(record_size)
  /\ UNCHANGED <<fs, src, returned, pc, err, reading, file, open, heap,
                 database_file, crate_file, path_to_track_, ret, idx>>

\* The tag is not in kFields<T>: fseek(file, record_size, SEEK_CUR); continue.
\* fseek moves past the end of the file without complaint.
SkipUnknownField ==
  /\ HasHeader
  /\ ~Known
  /\ pos' = SzAdd(PayloadPos, record_size)
  /\ stack' = Counted(record_size)
  /\ UNCHANGED <<fs, src, returned, pc, err, reading, file, open, heap,
                 database_file, crate_file, path_to_track_, ret, idx>>

\* read<std::string>(ctx, bytes, member): bytes / 2 code units are read.
StringBytes(bytes) == SzEvenPart(bytes)
StringInFile == SzLeq(SzAdd(PayloadPos, StringBytes(record_size)), Sz(Len(file)))
StringPayload ==
  SubSeq(file, PayloadPos[2] + 1, PayloadPos[2] + SzInt(StringBytes(record_size)))
IsStringField == HasHeader /\ Known /\ field.readfunc = "read_string"

\* (a text that is appended to the member: *str += ...)
AssignStringAppending(text) ==
  CASE Top.T = "DatabaseFile" ->
         /\ database_file' = [database_file EXCEPT !.version = @ \o text]
         /\ UNCHANGED <<heap, crate_file>>
    [] Top.T = "CrateFile" ->
         /\ crate_file' = [crate_file EXCEPT !.version = @ \o text]
         /\ UNCHANGED <<heap, database_file>>
    [] Top.T = "Track" ->
         /\ heap' = [heap EXCEPT ![Top.obj].path = @ \o text]
         /\ UNCHANGED <<database_file, crate_file>>
    [] Top.T = "CrateFileTrack" ->
         /\ crate_file' = [crate_file EXCEPT !.tracks[Top.obj].path = @ \o text]
         /\ UNCHANGED <<heap, database_file>>

\* *str = ...: the member of the object the frame fills.
AssignString(text) ==
  CASE Top.T = "DatabaseFile" ->
         /\ database_file' = [database_file EXCEPT !.version = text]
         /\ UNCHANGED <<heap, crate_file>>
    [] Top.T = "CrateFile" ->
         /\ crate_file' = [crate_file EXCEPT !.version = text]
         /\ UNCHANGED <<heap, database_file>>
    [] Top.T = "Track" ->
         /\ heap' = [heap EXCEPT ![Top.obj].path = text]
         /\ UNCHANGED <<database_file, crate_file>>
    [] Top.T = "CrateFileTrack" ->
         /\ crate_file' = [crate_file EXCEPT !.tracks[Top.obj].path = text]
         /\ UNCHANGED <<heap, database_file>>

ReadStringField ==
  /\ IsStringField
  /\ StringInFile
  /\ to_bytes(CodeUnits(StringPayload)).ok
  /\ AssignString(to_bytes(CodeUnits(StringPayload)).bytes)
  /\ pos' = SzAdd(PayloadPos, StringBytes(record_size))
  /\ stack' = Counted(record_size)
  /\ UNCHANGED <<fs, src, returned, pc, err, reading, file, open, path_to_track_, ret, idx>>

\* fgetc() returns EOF inside the text.
ReadStringTruncated ==
  /\ IsStringField
  /\ ~StringInFile
  /\ pos' = Sz(Len(file))
  /\ UNCHANGED open
  /\ Throw("ReadException")

\* to_bytes() throws std::range_error on an unpaired surrogate.
ReadStringMalformed ==
  /\ IsStringField
  /\ StringInFile
  /\ ~to_bytes(CodeUnits(StringPayload)).ok
  /\ pos' = SzAdd(PayloadPos, StringBytes(record_size))
  /\ UNCHANGED open
  /\ Throw("range_error")

\* (a vector that keeps one element: the new element takes the place of
\* the ones before it)
ReadRepeatedFieldOverwriting ==
  /\ HasHeader
  /\ Known
  /\ field.readfunc # "read_string"
  /\ pos' = PayloadPos
  /\ IF field.readfunc = "read_repeated_shared_ptr_Track"
     THEN /\ heap' = Append(heap, [path |-> <<>>])
          /\ database_file' = [database_file EXCEPT !.tracks = <<Len(heap) + 1>>]
          /\ stack' = Append(Counted(record_size),
                             [Frame("Track", record_size, Len(heap) + 1)
                                EXCEPT !.start = PayloadPos])
          /\ UNCHANGED crate_file
     ELSE /\ crate_file' = [crate_file EXCEPT !.tracks = <<[path |-> <<>>]>>]
          /\ stack' = Append(Counted(record_size),
                             [Frame("CrateFileTrack", record_size, 1)
                                EXCEPT !.start = PayloadPos])
          /\ UNCHANGED <<heap, database_file>>
  /\ UNCHANGED <<fs, src, returned, pc, err, reading, file, open, path_to_track_, ret, idx>>

\* read_repeated<T>: emplace_back() a new element, then read<T> it with the
\* record's size as budget.  For shared_ptr<Track> the element is a new
\* Track object (read<std::shared_ptr<Track>>).
ReadRepeatedField ==
  /\ HasHeader
  /\ Known
  /\ field.readfunc # "read_string"
  /\ pos' = PayloadPos
  /\ IF field.readfunc = "read_repeated_shared_ptr_Track"
     THEN /\ heap' = Append(heap, [path |-> <<>>])
          /\ database_file' =
               [database_file EXCEPT !.tracks = Append(@, Len(heap) + 1)]
          /\ stack' = Append(Counted(record_size),
                             [Frame("Track", record_size, Len(heap) + 1)
                                EXCEPT !.start = PayloadPos])
          /\ UNCHANGED crate_file
     ELSE /\ crate_file' = [crate_file EXCEPT !.tracks = Append(@, [path |-> <<>>])]
          /\ stack' = Append(Counted(record_size),
                             [Frame("CrateFileTrack", record_size,
                                    Len(crate_file.tracks) + 1)
                                EXCEPT !.start = PayloadPos])
          /\ UNCHANGED <<heap, database_file>>
  /\ UNCHANGED <<fs, src, returned, pc, err, reading, file, open, path_to_track_, ret, idx>>

\* ------------------------------------------------------- readFromPath<T>
\* make_unique<T>(), fopen, len = size of the file, read<T>(&ctx, len, ret).
OpenFile(T, content) ==
  /\ file' = content
  /\ pos' = SzZero
  /\ open' = open + 1
  /\ reading' = T
  /\ stack' = <<[T |-> T, bytes |-> Sz(Len(content)), bytes_read |-> SzZero,
                 obj |-> 0, start |-> SzZero]>>
  /\ pc' = "read"

\* readLibrary: readFromPath<DatabaseFile>("_Serato_/database V2").
OpenDatabase ==
  /\ pc = "start"
  /\ fs.database.exists
  /\ OpenFile("DatabaseFile", fs.database.content)
  /\ database_file' = [version |-> <<>>, tracks |-> <<>>]
  /\ UNCHANGED <<fs, src, returned, err, heap, crate_file, path_to_track_, ret, idx>>

\* fopen returns nullptr.
OpenDatabaseFails ==
  /\ pc = "start"
  /\ ~fs.database.exists
  /\ UNCHANGED pos
  /\ UNCHANGED open
  /\ Throw("ReadException")

\* (a map filled with insert(), which keeps the first track of a path)
PathToTrackFirstWins(tracks, h) ==
  [p \in {h[tracks[i]].path : i \in 1..Len(tracks)} |->
     tracks[CHOOSE i \in 1..Len(tracks) :
              /\ h[tracks[i]].path = p
              /\ \A j \in 1..(i - 1) : h[tracks[j]].path # p]]

\* CrateReader::CrateReader: path_to_track_[track->path] = track, in order.
RECURSIVE PathToTrack(_, _)
PathToTrack(tracks, h) ==
  IF tracks = <<>> THEN EmptyMap
  ELSE (h[Last(tracks)].path :> Last(tracks)) @@
       PathToTrack(SubSeq(tracks, 1, Len(tracks) - 1), h)

\* read<DatabaseFile> has returned: fclose, Library(*database_file),
\* CrateReader(database_file->tracks), and the directory_iterator is made.
CloseDatabase ==
  /\ pc = "read"
  /\ stack = <<>>
  /\ reading = "DatabaseFile"
  /\ fs.hasdir
  /\ open' = open - 1
  /\ reading' = None
  /\ ret' = [version |-> database_file.version,
             tracks |-> database_file.tracks,
             crates |-> <<>>]
  /\ path_to_track_' = PathToTrack(database_file.tracks, heap)
  /\ pc' = "crates"
  /\ idx' = 0
  /\ UNCHANGED <<fs, src, returned, err, file, pos, stack, heap, database_file, crate_file>>

\* The same, but _Serato_/Subcrates does not exist: directory_iterator's
\* constructor throws std::filesystem::filesystem_error.
SubcratesMissing ==
  /\ pc = "read"
  /\ stack = <<>>
  /\ reading = "DatabaseFile"
  /\ ~fs.hasdir
  /\ open' = open - 1
  /\ UNCHANGED pos
  /\ Throw("filesystem_error")
\* ---------------------------------------------------- CrateReader::read
\* The loop over crate_file.tracks: a path found in path_to_track_ gives its
\* Track, a path not found is skipped.
RECURSIVE ResolveAll(_, _)
ResolveAll(tracks, map) ==
  IF tracks = <<>> THEN <<>>
  ELSE IF Head(tracks).path \in DOMAIN map
       THEN <<map[Head(tracks).path]>> \o ResolveAll(Tail(tracks), map)
       ELSE ResolveAll(Tail(tracks), map)

\* (the loop left at the first path that is not found: break for continue)
RECURSIVE ResolveUntilMissing(_, _)
ResolveUntilMissing(tracks, map) ==
  IF tracks = <<>> \/ Head(tracks).path \notin DOMAIN map THEN <<>>
  ELSE <<map[Head(tracks).path]>> \o ResolveUntilMissing(Tail(tracks), map)

Resolve(tracks, map) == ResolveAll(tracks, map)

\* Crate ret = crate_file (CrateFile::operator Crate: name and version
\* only); ret.name = stem of the path; ret.tracks = the resolved tracks.
MakeCrate(cf, name, map) ==
  [name |-> stem(name), version |-> cf.version,
   tracks |-> Resolve(cf.tracks, map), subcrates |-> <<>>]

Entry == fs.subcrates[idx + 1]
AtEntry == pc = "crates" /\ idx < Len(fs.subcrates)

\* The entry's extension is not ".crate": continue.
SkipEntry ==
  /\ AtEntry
  /\ extension(Entry.name) # DotCrate
  /\ idx' = idx + 1
  /\ UNCHANGED <<fs, src, returned, pc, err, reading, file, pos, open, stack, heap,
                 database_file, crate_file, path_to_track_, ret>>

\* (a CrateFile made once and filled again by every later call, where
\* readFromPath makes a new one with make_unique)
OpenCrateReusingRecord ==
  /\ AtEntry
  /\ extension(Entry.name) = DotCrate
  /\ Entry.file.exists
  /\ OpenFile("CrateFile", Entry.file.content)
  /\ crate_file' = IF returned = <<>>
                   THEN [name |-> <<>>, version |-> <<>>, tracks |-> <<>>]
                   ELSE crate_file
  /\ UNCHANGED <<fs, src, returned, err, heap, database_file, path_to_track_, ret, idx>>

\* crate_reader.read(crate_path): readFromPath<CrateFile>(path).
OpenCrate ==
  /\ AtEntry
  /\ extension(Entry.name) = DotCrate
  /\ Entry.file.exists
  /\ OpenFile("CrateFile", Entry.file.content)
  /\ crate_file' = [name |-> <<>>, version |-> <<>>, tracks |-> <<>>]
  /\ UNCHANGED <<fs, src, returned, err, heap, database_file, path_to_track_, ret, idx>>

\* fopen returns nullptr.
OpenCrateFails ==
  /\ AtEntry
  /\ extension(Entry.name) = DotCrate
  /\ ~Entry.file.exists
  /\ UNCHANGED <<pos, open>>
  /\ Throw("ReadException")

\* (a Crate that holds copies of the Track objects, as when Crate::tracks
\* is a std::vector<Track>)
CloseCrateCopyingTracks ==
  /\ pc = "read"
  /\ stack = <<>>
  /\ reading = "CrateFile"
  /\ open' = open - 1
  /\ reading' = None
  /\ LET c == MakeCrate(crate_file, Entry.name, path_to_track_)
     IN /\ heap' = heap \o [i \in 1..Len(c.tracks) |-> heap[c.tracks[i]]]
        /\ ret' = [ret EXCEPT
                     !.crates = Append(@, [c EXCEPT !.tracks =
                                   [i \in 1..Len(c.tracks) |-> Len(heap) + i]])]
  /\ idx' = idx + 1
  /\ pc' = "crates"
  /\ returned' = Append(returned, [bytes |-> file, crate_file |-> crate_file])
  /\ UNCHANGED <<fs, src, err, file, pos, stack, database_file,
                 crate_file, path_to_track_>>

\* read<CrateFile> has returned: fclose; the Crate is built and pushed on
\* ret->crates; the iterator moves on.
CloseCrate ==
  /\ pc = "read"
  /\ stack = <<>>
  /\ reading = "CrateFile"
  /\ open' = open - 1
  /\ reading' = None
  /\ ret' = [ret EXCEPT
               !.crates = Append(@, MakeCrate(crate_file, Entry.name, path_to_track_))]
  /\ idx' = idx + 1
  /\ pc' = "crates"
  /\ returned' = Append(returned, [bytes |-> file, crate_file |-> crate_file])
  /\ UNCHANGED <<fs, src, err, file, pos, stack, heap, database_file,
                 crate_file, path_to_track_>>

\* The directory is exhausted: return ret.
ReturnLibrary ==
  /\ pc = "crates"
  /\ idx = Len(fs.subcrates)
  /\ pc' = "done"
  /\ UNCHANGED <<fs, src, returned, err, reading, file, pos, open, stack, heap,
                 database_file, crate_file, path_to_track_, ret, idx>>

\* ---------------------------------------------------------------- inputs
\* The files readLibrary is run on are built from record trees: a leaf
\* record carries a payload of big-endian 16-bit units plus pad bytes, an
\* object record (an `otrk` under the root) carries leaf records.
BE16(u) == <<u \div 256, u % 256>>
BE32(n) == <<(n \div B24) % 256, (n \div 65536) % 256, (n \div 256) % 256, n % 256>>

Leaf(tag, units, pad) ==
  [tag |-> tag, obj |-> FALSE, units |-> units, pad |-> pad, items |-> <<>>]
Obj(items) ==
  [tag |-> TagOtrk, obj |-> TRUE, units |-> <<>>, pad |-> <<>>, items |-> items]

LeafPayload(it) == Concat([i \in 1..Len(it.units) |-> BE16(it.units[i])]) \o it.pad
EncodeLeaf(it) == it.tag \o BE32(Len(LeafPayload(it))) \o LeafPayload(it)
LeafStream(items) == Concat([i \in 1..Len(items) |-> EncodeLeaf(items[i])])
Encode(it) ==
  IF it.obj
  THEN it.tag \o BE32(Len(LeafStream(it.items))) \o LeafStream(it.items)
  ELSE EncodeLeaf(it)
Stream(items) == Concat([i \in 1..Len(items) |-> Encode(items[i])])

\* Offsets (0-based) of the length words of a stream that starts at base.
RECURSIVE LengthWords(_, _)
LengthWords(items, base) ==
  IF items = <<>> THEN {}
  ELSE {base + kTagSize}
       \cup (IF Head(items).obj
             THEN LengthWords(Head(items).items, base + kTagSize + kRecordSizeSize)
             ELSE {})
       \cup LengthWords(Tail(items), base + Len(Encode(Head(items))))

\* A damaged file: the last n bytes cut off, or one length word rewritten.
NoDamage == [kind |-> "none", n |-> 0, word |-> <<>>]
Damaged(bytes, dmg) ==
  CASE dmg.kind = "none" -> bytes
    [] dmg.kind = "cut" -> SubSeq(bytes, 1, Len(bytes) - dmg.n)
    [] dmg.kind = "setlen" ->
         [i \in 1..Len(bytes) |->
            IF i > dmg.n /\ i <= dmg.n + kRecordSizeSize
            THEN dmg.word[i - dmg.n] ELSE bytes[i]]

\* Length words a damaged record may declare: 0, 3, 10, 256, 2^24 + 1,
\* 2^31, 2^32 - 1.
LengthWordSet ==
  {<<0, 0, 0, 0>>, <<0, 0, 0, 3>>, <<0, 0, 0, 10>>, <<0, 0, 1, 0>>,
   <<1, 0, 0, 1>>, <<128, 0, 0, 0>>, <<255, 255, 255, 255>>}

Damages(items) ==
  LET bytes == Stream(items)
  IN {[kind |-> "cut", n |-> n, word |-> <<>>] : n \in 1..Min(MaxCut, Len(bytes))}
     \cup {[kind |-> "setlen", n |-> o, word |-> w] :
             o \in LengthWords(items, 0), w \in LengthWordSet}

\* Payloads: "", "AB", and "A" followed by an odd byte.
PayloadSet ==
  {[units |-> <<>>, pad |-> <<>>], [units |-> <<65, 66>>, pad |-> <<>>],
   [units |-> <<65>>, pad |-> <<67>>]}
\* Texts beyond ASCII: 2- and 3-byte UTF-8, a surrogate pair, unpaired
\* surrogates.
WideSet ==
  {<<233, 8364>>, <<55357, 56832>>, <<55357>>, <<65, 56832>>}

RootTags == {TagVrsn, TagXxxx}
InnerTags == {TagPfil, TagPtrk, TagVrsn, TagOtrk, TagXxxx}
RootLeaves == {Leaf(t, p.units, p.pad) : t \in RootTags, p \in PayloadSet}
InnerLeaves == {Leaf(t, p.units, p.pad) : t \in InnerTags, p \in PayloadSet}

\* Root items made of exactly w records.
ItemsOfWeight(w) ==
  (IF w = 1 THEN RootLeaves ELSE {})
  \cup {Obj(inner) : inner \in [1..(w - 1) -> InnerLeaves]}

\* Root streams made of at most n records.
RECURSIVE Sources(_)
Sources(n) ==
  {<<>>} \cup
  UNION {{<<it>> \o rest : it \in ItemsOfWeight(w), rest \in Sources(n - w)} :
           w \in 1..n}

\* Streams with one text record beyond ASCII, at the root or in a track.
WideSources ==
  {<<Leaf(TagVrsn, u, <<>>)>> : u \in WideSet}
  \cup {<<Obj(<<Leaf(t, u, <<>>)>>)>> : t \in {TagPfil, TagPtrk}, u \in WideSet}

\* A file to decode: its record tree, its damage, its bytes.
\* (exists = FALSE: a path fopen cannot open.)
FileOf(items, dmg) == [items |-> items, dmg |-> dmg, exists |-> TRUE]
NoFile == [items |-> <<>>, dmg |-> NoDamage, exists |-> FALSE]
FileSources ==
  {FileOf(s, NoDamage) : s \in Sources(MaxRecs) \cup WideSources}
  \cup UNION {{FileOf(s, d) : d \in Damages(s)} : s \in Sources(MaxDmgRecs)}
Bytes(f) == Damaged(Stream(f.items), f.dmg)

\* Library inputs: track paths "a", "b"; crate references also to "ab",
\* which no database track has.
DbPaths == {<<97>>, <<98>>}
RefPaths == DbPaths \cup {<<97, 98>>}
SeqsUpTo(S, n) == UNION {[1..k -> S] : k \in 0..n}

VersionLeaf == Leaf(TagVrsn, <<50, 46, 48>>, <<>>)
DbSource(paths) ==
  <<VersionLeaf>> \o [i \in 1..Len(paths) |-> Obj(<<Leaf(TagPfil, paths[i], <<>>)>>)]
CrateSource(refs) ==
  <<VersionLeaf>> \o [i \in 1..Len(refs) |-> Obj(<<Leaf(TagPtrk, refs[i], <<>>)>>)]

\* File names: "T.crate", "T%%M.crate", "T%%M%%L.crate", "O%%C.crate", "T.txt".
NameTop == <<84>> \o DotCrate
NameMid == <<84, 37, 37, 77>> \o DotCrate
NameLeaf == <<84, 37, 37, 77, 37, 37, 76>> \o DotCrate
NameOrphan == <<79, 37, 37, 67>> \o DotCrate
NameTxt == <<84, 46, 116, 120, 116>>
NameSet == {NameTop, NameMid, NameLeaf, NameOrphan, NameTxt}

\* The references of the crate file of a given name in a directory listing.
RefsOf(name) ==
  CASE name = NameTop -> <<<<97>>>>
    [] name = NameMid -> <<<<98>>, <<97>>>>
    [] name = NameLeaf -> <<<<97, 98>>>>
    [] OTHER -> <<>>

DirEntry(name, f) == [name |-> name, file |-> f]
Listings ==
  {l \in SeqsUpTo(NameSet, MaxCrates) : \A i, j \in 1..Len(l) : i # j => l[i] # l[j]}

\* (hasdir = FALSE: there is no Subcrates directory.)
Input(db, dir) == [database |-> db, hasdir |-> TRUE, subcrates |-> dir]
NoDir(db) == [database |-> db, hasdir |-> FALSE, subcrates |-> <<>>]
SimpleDb == FileOf(DbSource(<<<<97>>, <<98>>>>), NoDamage)

Inputs ==
  \* any database file, an empty Subcrates directory
  {Input(f, <<>>) : f \in FileSources}
  \* a plain database, any crate file
  \cup {Input(SimpleDb, <<DirEntry(NameTop, f)>>) : f \in FileSources}
  \* any track list, one crate with any reference list
  \cup {Input(FileOf(DbSource(t), NoDamage),
              <<DirEntry(NameTop, FileOf(CrateSource(r), NoDamage))>>) :
          t \in SeqsUpTo(DbPaths, MaxTracks), r \in SeqsUpTo(RefPaths, MaxRefs)}
  \* a plain database, any listing of differently named entries
  \cup {Input(SimpleDb,
              [i \in 1..Len(l) |-> DirEntry(l[i], FileOf(CrateSource(RefsOf(l[i])), NoDamage))]) :
          l \in Listings}
  \* a plain database, a good crate file, then a damaged or missing one
  \cup {Input(SimpleDb, <<DirEntry(NameTop, FileOf(CrateSource(<<<<97>>>>), NoDamage)),
                          DirEntry(NameMid, f)>>) :
          f \in {NoFile} \cup {FileOf(CrateSource(<<<<98>>>>), d) :
                                  d \in Damages(CrateSource(<<<<98>>>>))}}
  \* a plain database, two crate files with the same bytes
  \cup {Input(SimpleDb, <<DirEntry(NameTop, f), DirEntry(NameMid, f)>>) :
          f \in {FileOf(s, NoDamage) : s \in Sources(MaxDmgRecs)}
                \cup UNION {{FileOf(s, d) : d \in Damages(s)} : s \in Sources(1)}}
  \* files and directories that cannot be opened
  \cup {Input(NoFile, <<>>), NoDir(SimpleDb),
        Input(SimpleDb, <<DirEntry(NameTop, NoFile)>>),
        Input(SimpleDb, <<DirEntry(NameTxt, NoFile),
                          DirEntry(NameTop, FileOf(CrateSource(<<>>), NoDamage))>>)}

OnDisk(f) == [exists |-> f.exists, content |-> Bytes(f)]
FsOf(in) ==
  [database |-> OnDisk(in.database),
   hasdir |-> in.hasdir,
   subcrates |-> [i \in 1..Len(in.subcrates) |->
                    [name |-> in.subcrates[i].name,
                     file |-> OnDisk(in.subcrates[i].file)]]]

\* ------------------------------------------------------------ specification
Init ==
  /\ src \in Inputs
  /\ fs = FsOf(src)
  /\ pc = "start"
  /\ err = None
  /\ reading = None
  /\ file = <<>>
  /\ pos = SzZero
  /\ open = 0
  /\ stack = <<>>
  /\ heap = <<>>
  /\ database_file = nullptr
  /\ crate_file = nullptr
  /\ path_to_track_ = EmptyMap
  /\ ret = nullptr
  /\ idx = 0
  /\ returned = <<>>

Next ==
  \/ OpenDatabase
  \/ OpenDatabaseFails
  \/ ReadReturn
  \/ ReadTagTruncated
  \/ ReadSizeTruncated
  \/ SkipUnknownField
  \/ ReadStringField
  \/ ReadStringTruncated
  \/ ReadStringMalformed
  \/ ReadRepeatedField
  \/ CloseDatabase
  \/ SubcratesMissing
  \/ SkipEntry
  \/ OpenCrate
  \/ OpenCrateFails
  \/ CloseCrate
  \/ ReturnLibrary

Spec == Init /\ [][Next]_vars

\* readLibrary runs on one thread and nothing it waits for can stay away: a
\* step that can be taken is taken.  (Every step changes the control state,
\* the file position, a read<T> frame or the directory index.)
progress == <<pc, pos, stack, idx>>
FairSpec == Spec /\ WF_progress(Next)

\* ------------------------------------------------------------------ claims
\* The record tree and damage of the file being decoded.
CurFile ==
  IF reading = "DatabaseFile" THEN src.database ELSE src.subcrates[idx + 1].file

\* The while condition of the innermost read<T> fails: it returns normally.
ReturnsNormally == AtLoopHead /\ ~InLoopBody
\* The outermost read<T> has returned to readFromPath<T>.
FileReturned == pc = "read" /\ stack = <<>>

\* The tag of the path text inside a track of a file of type T.
PathTag(T) == IF T = "DatabaseFile" THEN TagPfil ELSE TagPtrk

\* Some text field of the tree (a root `vrsn`, a track's path) has an odd
\* payload length.
OddText(items, T) ==
  \E i \in 1..Len(items) :
    \/ ~items[i].obj /\ items[i].tag = TagVrsn /\ items[i].pad # <<>>
    \/ /\ items[i].obj
       /\ \E j \in 1..Len(items[i].items) :
            items[i].items[j].tag = PathTag(T) /\ items[i].items[j].pad # <<>>

\* The file is a concatenation of well-formed records: every declared length
\* is the length of the payload that follows, and text payloads are even.
WellFormed == CurFile.dmg.kind = "none" /\ ~OddText(CurFile.items, reading)

\* C1 (as claimed): whenever read<T>(ctx, N, obj) returns normally, at the top
\* level or for an `otrk` payload, the file position is exactly N bytes past
\* the position at which the call started.
C1_ExactlyN == ReturnsNormally => pos = SzAdd(Top.start, Top.bytes)

\* C1 (amended): when the records tile the budget exactly (a well-formed
\* stream), a read<T>(ctx, N, obj) that returns normally has counted exactly N
\* bytes and left the file position exactly N bytes past its start.
C1_ExactOnWellFormed ==
  (ReturnsNormally /\ WellFormed) =>
    /\ Top.bytes_read = Top.bytes
    /\ pos = SzAdd(Top.start, Top.bytes)

\* C1 witness: the read<Track> of a non-empty `otrk` payload of a well-formed
\* stream returns, and more records follow it in the file.
C1_Witness ==
  /\ ReturnsNormally
  /\ WellFormed
  /\ Len(stack) = 2
  /\ SzLess(SzZero, Top.bytes)
  /\ SzLess(pos, Sz(Len(file)))

\* The value of a 4-byte big-endian word, b0*2^24 + b1*2^16 + b2*2^8 + b3.
BEValue(b) == <<b[1], b[2] * 65536 + b[3] * 256 + b[4]>>

\* Walking the records of bytes[o+1 .. end] by their declared lengths: some
\* record has fewer than 4 bytes left for its tag or its length, or declares
\* more payload than the file still holds (`otrk` payloads under the root are
\* walked too).
RECURSIVE ShortRecord(_, _, _, _)
ShortRecord(bytes, o, end, root) ==
  IF o >= end THEN FALSE
  ELSE IF Len(bytes) - o < kTagSize + kRecordSizeSize THEN TRUE
  ELSE LET L == BEValue(SubSeq(bytes, o + kTagSize + 1, o + kTagSize + kRecordSizeSize))
           body == o + kTagSize + kRecordSizeSize
       IN IF SzLess(Sz(Len(bytes)), SzAdd(Sz(body), L)) THEN TRUE
          ELSE \/ /\ root
                  /\ SubSeq(bytes, o + 1, o + kTagSize) = TagOtrk
                  /\ ShortRecord(bytes, body, body + SzInt(L), FALSE)
               \/ ShortRecord(bytes, body + SzInt(L), end, root)

\* The file is a well-formed stream with its end cut off inside a record, or
\* with one length rewritten to more than the file holds after it.
Truncated ==
  /\ ~OddText(CurFile.items, reading)
  /\ \/ CurFile.dmg.kind = "cut" /\ ShortRecord(file, 0, Len(file), TRUE)
     \/ /\ CurFile.dmg.kind = "setlen"
        /\ SzLess(Sz(Len(file)),
                  SzAdd(Sz(CurFile.dmg.n + kRecordSizeSize), BEValue(CurFile.dmg.word)))

\* C2 (as claimed): a file in which a record, known or unknown, at the root
\* or inside an `otrk`, declares more payload than the file holds, or in which
\* fewer than 4 bytes are left for a tag or a length, is never decoded to a
\* record: read<T> does not return normally on it.
C2_TruncationDetected == FileReturned => ~Truncated

\* The decoded record, as values: the version text and the track paths.
Decoded ==
  IF reading = "DatabaseFile"
  THEN [version |-> database_file.version,
        tracks |-> [i \in 1..Len(database_file.tracks) |->
                      heap[database_file.tracks[i]].path]]
  ELSE [version |-> crate_file.version,
        tracks |-> [i \in 1..Len(crate_file.tracks) |-> crate_file.tracks[i].path]]

\* A record tree without the records the schema of T does not know: under the
\* root everything but `vrsn` leaves and `otrk` objects, in a track everything
\* but its path tag.
StripUnknown(items, T) ==
  LET KnownLeaf(it) == it.tag = PathTag(T)
      KnownItem(it) == it.obj \/ it.tag = TagVrsn
      Strip(it) == IF it.obj THEN Obj(SelectSeq(it.items, KnownLeaf)) ELSE it
      kept == SelectSeq(items, KnownItem)
  IN [i \in 1..Len(kept) |-> Strip(kept[i])]

\* What a tree of known records decodes to: the text of the last root leaf,
\* and per object the text of its last leaf.
LastText(leaves) ==
  IF leaves = <<>> THEN <<>> ELSE to_bytes(Last(leaves).units).bytes
ExpectedOfKnown(items) ==
  LET IsObj(it) == it.obj
      IsLeaf(it) == ~it.obj
      objs == SelectSeq(items, IsObj)
  IN [version |-> LastText(SelectSeq(items, IsLeaf)),
      tracks |-> [i \in 1..Len(objs) |-> LastText(objs[i].items)]]

\* C3: the record decoded from a well-formed stream is the record decoded
\* from the stream without its unknown records (so inserting an unknown
\* record of any length between two records changes nothing), and a step that
\* meets an unknown tag moves the file position by exactly 8 + L and leaves
\* every decoded field as it was.
C3_UnknownSkipped ==
  /\ [](FileReturned /\ WellFormed =>
          Decoded = ExpectedOfKnown(StripUnknown(CurFile.items, reading)))
  /\ [][HasHeader /\ ~Known /\ pc' = "read" =>
          /\ pos' = SzAdd(SzAdd(pos, Sz(8)), BEValue(SizeBytes))
          /\ UNCHANGED <<heap, database_file, crate_file>>
          /\ Len(stack') = Len(stack)]_vars

\* C3 witness: a database file with an unknown record of odd length between
\* two known records has been decoded.
C3_Witness ==
  /\ FileReturned
  /\ WellFormed
  /\ reading = "DatabaseFile"
  /\ Len(CurFile.items) = 3
  /\ CurFile.items[1].tag = TagVrsn
  /\ CurFile.items[2].tag = TagXxxx /\ CurFile.items[2].pad # <<>>
  /\ CurFile.items[3].obj /\ Len(CurFile.items[3].items) = 0

\* The UTF-16 code units of a UTF-8 text (the inverse of the decoder's
\* conversion).
RECURSIVE Utf16Of(_)
Utf16Of(b) ==
  IF b = <<>> THEN <<>>
  ELSE IF b[1] < 128 THEN <<b[1]>> \o Utf16Of(SubSeq(b, 2, Len(b)))
  ELSE IF b[1] < 224 THEN
    <<(b[1] - 192) * 64 + (b[2] - 128)>> \o Utf16Of(SubSeq(b, 3, Len(b)))
  ELSE IF b[1] < 240 THEN
    <<(b[1] - 224) * 4096 + (b[2] - 128) * 64 + (b[3] - 128)>>
      \o Utf16Of(SubSeq(b, 4, Len(b)))
  ELSE LET c == (b[1] - 240) * 262144 + (b[2] - 128) * 4096
                + (b[3] - 128) * 64 + (b[4] - 128) - 65536
       IN <<55296 + (c \div 1024), 56320 + (c % 1024)>>
            \o Utf16Of(SubSeq(b, 5, Len(b)))

\* The leaves of a sequence that carry a given tag.
WithTag(leaves, tag) ==
  LET Has(it) == ~it.obj /\ it.tag = tag IN SelectSeq(leaves, Has)
Objects(items) == LET IsObj(it) == it.obj IN SelectSeq(items, IsObj)

\* text, as UTF-16, is the payload of the last of the leaves (empty if none).
MatchesPayload(text, leaves) ==
  IF leaves = <<>> THEN text = <<>> ELSE Utf16Of(text) = Last(leaves).units

\* C4: after a well-formed stream is decoded with its length as budget, the
\* version text re-encoded as UTF-16 is the payload of the `vrsn` record, the
\* track list has one track per `otrk` record, and each path re-encoded is the
\* payload of the track's path record; payload bytes 00 41 00 42 give "AB".
C4_FieldsMatchPayloads ==
  (FileReturned /\ WellFormed) =>
    /\ MatchesPayload(Decoded.version, WithTag(CurFile.items, TagVrsn))
    /\ Len(Decoded.tracks) = Len(Objects(CurFile.items))
    /\ \A k \in 1..Len(Decoded.tracks) :
         MatchesPayload(Decoded.tracks[k],
                        WithTag(Objects(CurFile.items)[k].items, PathTag(reading)))
    /\ (/\ Len(WithTag(CurFile.items, TagVrsn)) = 1
        /\ LeafPayload(WithTag(CurFile.items, TagVrsn)[1]) = <<0, 65, 0, 66>>)
       => Decoded.version = <<65, 66>>

\* C4 witness: a database file with a version "AB" and a track whose path is
\* "AB" has been decoded.
C4_Witness ==
  /\ FileReturned
  /\ WellFormed
  /\ reading = "DatabaseFile"
  /\ Decoded.version = <<65, 66>>
  /\ Len(Decoded.tracks) = 1
  /\ Decoded.tracks[1] = <<65, 66>>
  /\ file = TagVrsn \o <<0, 0, 0, 4, 0, 65, 0, 66>> \o TagOtrk \o <<0, 0, 0, 12>>
              \o TagPfil \o <<0, 0, 0, 4, 0, 65, 0, 66>>

\* C4 witness beyond ASCII is part of the same check: a path with a 2-byte and
\* a 3-byte UTF-8 character.
C4_WideWitness ==
  /\ FileReturned
  /\ WellFormed
  /\ Len(Decoded.tracks) = 1
  /\ Decoded.tracks[1] = <<195, 169, 226, 130, 172>>

\* The frame that was innermost before a step, as it is after the step.
SameFrame == stack'[Len(stack)]

\* C5: the 4 bytes after a tag are read as the big-endian unsigned value
\* L = b0*2^24 + b1*2^16 + b2*2^8 + b3, and L is what the step uses: the
\* consumed-byte counter grows by 8 + L, an unknown record moves the file
\* position by 8 + L, a text handler is handed L (it reads 2 * (L / 2) bytes),
\* and a nested read<T> gets L as its budget.
C5_BigEndianLength ==
  [][(HasHeader /\ pc' = "read") =>
       LET L == BEValue(SizeBytes)
       IN /\ L[1] >= 0 /\ L[1] < 256 /\ L[2] >= 0 /\ L[2] < B24
          /\ SameFrame.bytes_read = SzAdd(SzAdd(Top.bytes_read, Sz(8)), L)
          /\ ~Known => pos' = SzAdd(SzAdd(pos, Sz(8)), L)
          /\ (Known /\ field.readfunc = "read_string") =>
               pos' = SzAdd(SzAdd(pos, Sz(8)), SzEvenPart(L))
          /\ (Known /\ field.readfunc # "read_string") =>
               /\ Len(stack') = Len(stack) + 1
               /\ stack'[Len(stack')].bytes = L
               /\ pos' = SzAdd(pos, Sz(8))]_vars

\* C5 witness: a record declaring 2^32 - 1 bytes has been skipped; the file
\* position is 8 + 2^32 - 1 = 2^32 + 7.
C5_Witness ==
  /\ pc = "read"
  /\ stack # <<>>
  /\ pos = <<256, 7>>
  /\ Top.bytes_read = <<256, 7>>

\* C6 (as claimed): the step that decodes a text field (`vrsn`, `pfil`,
\* `ptrk`) whose declared length is odd ends in an error; no text is stored.
C6_OddLengthRejected ==
  [][(IsStringField /\ record_size[2] % 2 = 1) => pc' = "error"]_vars

\* The path of the track a read<Track> / read<CrateFileTrack> frame fills.
PathOf(f, h, cf) == IF f.T = "Track" THEN h[f.obj].path ELSE cf.tracks[f.obj].path
Untouched == UNCHANGED <<heap, database_file, crate_file>> /\ Len(stack') = Len(stack)

\* C7: the tag is looked up in the table of the enclosing record type.  In a
\* database track only `pfil` sets the path and in a crate track only `ptrk`
\* does; every other tag there (`ptrk` resp. `pfil`, `vrsn`, `otrk`) is
\* skipped and changes nothing.  Under a root, `vrsn` sets the version, `otrk`
\* starts a nested track of the root's kind, and `pfil` and `ptrk` are skipped.
C7_LookupPerType ==
  [][(HasHeader /\ pc' = "read") =>
       LET text == to_bytes(CodeUnits(StringPayload)).bytes
       IN /\ (Top.T = "Track" /\ Tag = TagPfil) =>
               PathOf(Top, heap', crate_file') = text /\ Len(stack') = Len(stack)
          /\ (Top.T = "Track" /\ Tag # TagPfil) => Untouched
          /\ (Top.T = "CrateFileTrack" /\ Tag = TagPtrk) =>
               PathOf(Top, heap', crate_file') = text /\ Len(stack') = Len(stack)
          /\ (Top.T = "CrateFileTrack" /\ Tag # TagPtrk) => Untouched
          /\ (Top.T = "DatabaseFile" /\ Tag = TagVrsn) =>
               database_file'.version = text /\ UNCHANGED heap
          /\ (Top.T = "CrateFile" /\ Tag = TagVrsn) =>
               crate_file'.version = text /\ UNCHANGED heap
          /\ (Top.T = "DatabaseFile" /\ Tag = TagOtrk) =>
               /\ Len(stack') = Len(stack) + 1
               /\ stack'[Len(stack')].T = "Track"
               /\ Len(database_file'.tracks) = Len(database_file.tracks) + 1
          /\ (Top.T = "CrateFile" /\ Tag = TagOtrk) =>
               /\ Len(stack') = Len(stack) + 1
               /\ stack'[Len(stack')].T = "CrateFileTrack"
               /\ Len(crate_file'.tracks) = Len(crate_file.tracks) + 1
          /\ (Top.T \in {"DatabaseFile", "CrateFile"} /\ Tag \notin {TagVrsn, TagOtrk})
               => Untouched]_vars

\* C7 witness: inside a database track a `ptrk` record with payload "AB" has
\* just been passed and the track's path is still empty.
C7_Witness ==
  /\ pc = "read"
  /\ Len(stack) = 2
  /\ Top.T = "Track"
  /\ Top.bytes_read = Sz(12)
  /\ WellFormed
  /\ SubSeq(file, SzInt(Top.start) + 1, SzInt(Top.start) + 12)
       = TagPtrk \o <<0, 0, 0, 4, 0, 65, 0, 66>>
  /\ heap[Top.obj].path = <<>>

\* C7 witness: inside a crate track a `pfil` record has been passed the same
\* way, and a following `ptrk` record has set the path.
C7_CrateWitness ==
  /\ pc = "read"
  /\ Len(stack) = 2
  /\ Top.T = "CrateFileTrack"
  /\ Top.bytes_read = Sz(24)
  /\ WellFormed
  /\ SubSeq(file, SzInt(Top.start) + 1, SzInt(Top.start) + 24)
       = TagPfil \o <<0, 0, 0, 4, 0, 65, 0, 66>> \o TagPtrk \o <<0, 0, 0, 4, 0, 65, 0, 66>>
  /\ crate_file.tracks[Top.obj].path = <<65, 66>>

\* readLibrary holds a Library (ret) from the end of the database read on.
LibraryBuilt ==
  \/ pc \in {"crates", "done"}
  \/ pc = "read" /\ reading = "CrateFile"

PathsOf(ids) == [i \in 1..Len(ids) |-> heap[ids[i]].path]

\* The subsequence of refs whose elements are in the set S, in order.
RECURSIVE Only(_, _)
Only(refs, S) ==
  IF refs = <<>> THEN <<>>
  ELSE (IF Head(refs) \in S THEN <<Head(refs)>> ELSE <<>>) \o Only(Tail(refs), S)

\* C8: the tracks of the Crate made from a crate file are, by path, the
\* file's reference paths without those that are the path of no database
\* track, in the file's order and with repetitions kept; turning a decoded
\* crate file into a Crate never fails.
C8_ResolvedInOrder ==
  /\ []((pc \in {"crates", "done"} /\ Len(ret.crates) > 0) =>
          PathsOf(Last(ret.crates).tracks) =
            Only([i \in 1..Len(crate_file.tracks) |-> crate_file.tracks[i].path],
                 Range(PathsOf(ret.tracks))))
  /\ [][(FileReturned /\ reading = "CrateFile") =>
          pc' = "crates" /\ Len(ret'.crates) = Len(ret.crates) + 1]_vars

\* C8 witness: with database tracks "a", "b", a crate file referring to "a",
\* "ab", "a" has become a Crate with the track "a" twice.
C8_Witness ==
  /\ pc = "done"
  /\ PathsOf(ret.tracks) = <<<<97>>, <<98>>>>
  /\ Len(ret.crates) = 1
  /\ crate_file.tracks = <<[path |-> <<97>>], [path |-> <<97, 98>>], [path |-> <<97>>]>>
  /\ ret.crates[1].tracks = <<1, 1>>

\* C9: every track a crate of the Library refers to is one of the Track
\* objects of the Library's own track list, and from the moment the Library is
\* built its track list is the list decoded from the database file: the same
\* objects in the same order, with their paths unchanged.
C9_SharedTracks ==
  /\ [](LibraryBuilt =>
          /\ \A k \in 1..Len(ret.crates) :
               Range(ret.crates[k].tracks) \subseteq Range(ret.tracks)
          /\ ret.tracks = database_file.tracks)
  /\ [][(LibraryBuilt /\ LibraryBuilt') =>
          /\ ret'.tracks = ret.tracks
          /\ database_file' = database_file
          /\ \A id \in Range(ret.tracks) : heap'[id] = heap[id]]_vars

\* C9 witness: two crates of the returned Library refer to the first track of
\* the Library's list.
C9_Witness ==
  /\ pc = "done"
  /\ Len(ret.tracks) = 2
  /\ Len(ret.crates) = 2
  /\ ret.tracks[1] \in Range(ret.crates[1].tracks)
  /\ ret.tracks[1] \in Range(ret.crates[2].tracks)

\* The pieces of a crate name: the name split at each "%%".
RECURSIVE SplitName(_)
SplitName(n) ==
  LET at == {i \in 1..(Len(n) - 1) : n[i] = 37 /\ n[i + 1] = 37}
  IN IF at = {} THEN <<n>>
     ELSE LET i == CHOOSE i \in at : \A j \in at : i <= j
          IN <<SubSeq(n, 1, i - 1)>> \o SplitName(SubSeq(n, i + 2, Len(n)))

\* The path-keys of the crate files of the directory.
LoadedKeys ==
  {SplitName(stem(fs.subcrates[i].name)) :
     i \in {j \in 1..Len(fs.subcrates) : extension(fs.subcrates[j].name) = DotCrate}}
ParentKey(key) == SubSeq(key, 1, Len(key) - 1)

\* A crate is found in a forest by following its path-key from the roots.
RECURSIVE InForest(_, _)
InForest(crates, key) ==
  \E k \in 1..Len(crates) :
    /\ crates[k].name = key[1]
    /\ Len(key) = 1 \/ InForest(crates[k].subcrates, Tail(key))

\* C10 (as claimed): in the returned Library, a crate whose name has more than
\* one piece and whose parent path-key is the name of another loaded crate is
\* not a top-level crate under its full name; it is found under its last
\* piece among the subcrates of its parent ("T", "T%%M", "T%%M%%L" give the
\* top-level "T" with child "M", which has child "L").
C10_Nested ==
  pc = "done" =>
    \A key \in LoadedKeys :
      (Len(key) > 1 /\ ParentKey(key) \in LoadedKeys) =>
        /\ \A k \in 1..Len(ret.crates) : SplitName(ret.crates[k].name) # key
        /\ (\A n \in 1..Len(key) : SubSeq(key, 1, n) \in LoadedKeys)
             => InForest(ret.crates, key)

\* The crates of a forest at every level.
RECURSIVE AllCrates(_)
AllCrates(crates) ==
  UNION {{crates[k]} \cup AllCrates(crates[k].subcrates) : k \in 1..Len(crates)}

\* C11 (as claimed): in the returned Library a crate whose name has more than
\* one piece and whose parent path-key is the key of no loaded crate
\* ("O%%C" without "O") is at no level of the forest, neither under its full
\* name nor under its last piece at the place its path-key names; and the run
\* that loaded it has not failed.
C11_OrphanDropped ==
  \A key \in LoadedKeys :
    (Len(key) > 1 /\ ParentKey(key) \notin LoadedKeys) =>
      /\ pc = "done" =>
           /\ \A c \in AllCrates(ret.crates) : SplitName(c.name) # key
           /\ ~InForest(ret.crates, key)
      /\ (pc = "crates" /\ idx = Len(fs.subcrates)) => err = None

\* The names of the crates readLibrary pushes for a directory listing: the
\* stems of the entries with the extension ".crate", in the listing's order.
CrateNamesOf(listing) ==
  LET IsCrate(e) == extension(e.name) = DotCrate
      kept == SelectSeq(listing, IsCrate)
  IN [i \in 1..Len(kept) |-> stem(kept[i].name)]

\* The listings a directory_iterator may produce for the same directory
\* contents: the orders of the same entries.
Enumerations(listing) ==
  {[i \in 1..Len(listing) |-> listing[p[i]]] :
     p \in {q \in [1..Len(listing) -> 1..Len(listing)] :
              \A i, j \in 1..Len(listing) : i # j => q[i] # q[j]}}

\* C12 (as claimed): the sequence of top-level crates of the returned Library
\* is the one readLibrary produces for every other enumeration order of the
\* same directory entries.
C12_OrderIndependent ==
  pc = "done" =>
    \A l \in Enumerations(fs.subcrates) :
      [k \in 1..Len(ret.crates) |-> ret.crates[k].name] = CrateNamesOf(l)

\* C13 (as claimed): once the database file has been decoded, a run without a
\* Subcrates directory, or with an empty one, goes on without an error to
\* return a Library with the database's version and tracks and no crates.
C13_NoSubcratesNoCrates ==
  [][(FileReturned /\ reading = "DatabaseFile" /\ fs.subcrates = <<>>) =>
       /\ pc' = "crates"
       /\ err' = None
       /\ ret' = [version |-> database_file.version,
                  tracks |-> database_file.tracks,
                  crates |-> <<>>]]_vars

\* C14 (as claimed): when readLibrary has ended, by returning a Library or by
\* raising an error, no FILE handle it opened is still open.
C14_HandlesClosed == pc \in {"done", "error"} => open = 0

\* The step about to be taken fails: a file cannot be opened, or the decoder
\* meets the end of the file inside a tag, a length or a text, or a text that
\* cannot be converted, at the root or inside an `otrk`.
OpenFails ==
  \/ pc = "start" /\ ~fs.database.exists
  \/ AtEntry /\ extension(Entry.name) = DotCrate /\ ~Entry.file.exists
DecodeFails ==
  \/ InLoopBody /\ Avail < kTagSize + kRecordSizeSize
  \/ /\ IsStringField
     /\ ~StringInFile \/ ~to_bytes(CodeUnits(StringPayload)).ok

\* C15: a failure to open the database file or a crate file, and a failure
\* of the decoder at any depth in any of them, ends readLibrary with that
\* error and without a Library; a run that returns a Library has failed
\* nowhere, and the Library has the database's version and tracks and one
\* crate for every .crate entry of the directory.
C15_AllOrNothing ==
  /\ [](pc = "error" => (err # None /\ ret = nullptr))
  /\ [](pc = "done" =>
          /\ err = None
          /\ ret.version = database_file.version
          /\ ret.tracks = database_file.tracks
          /\ [k \in 1..Len(ret.crates) |-> ret.crates[k].name]
               = CrateNamesOf(fs.subcrates))
  /\ [][(OpenFails \/ DecodeFails) => (pc' = "error" /\ err' # None /\ ret' = nullptr)]_vars

\* C15 witness: the first crate file was decoded and its Crate pushed; the
\* second one ends inside the path text of its `otrk` record, and the run has
\* ended with the decoder's error.
C15_Witness ==
  /\ pc = "error"
  /\ err = "ReadException"
  /\ idx = 1
  /\ Len(src.subcrates) = 2
  /\ src.subcrates[2].file.exists
  /\ src.subcrates[2].file.dmg.kind = "cut"
  /\ src.subcrates[2].file.dmg.n = 1

TextOf(fr, df, cf, h) ==
  CASE fr.T = "DatabaseFile" -> df.version
    [] fr.T = "CrateFile" -> cf.version
    [] fr.T = "Track" -> h[fr.obj].path
    [] fr.T = "CrateFileTrack" -> cf.tracks[fr.obj].path

\* C17: a step that decodes a singular text record leaves in the field the
\* text of that record's payload alone, whatever the field held before; so in
\* the record decoded from a well-formed stream in which `vrsn` occurs several
\* times in the root, or the path tag several times in one track, the field is
\* the text of the last occurrence.
C17_LastOccurrenceWins ==
  /\ [][(IsStringField /\ pc' = "read") =>
          TextOf(Top, database_file', crate_file', heap')
            = to_bytes(CodeUnits(StringPayload)).bytes]_vars
  /\ []((FileReturned /\ WellFormed) =>
          /\ Len(WithTag(CurFile.items, TagVrsn)) > 1 =>
               Decoded.version
                 = to_bytes(Last(WithTag(CurFile.items, TagVrsn)).units).bytes
          /\ \A i \in 1..Len(Objects(CurFile.items)) :
               Len(WithTag(Objects(CurFile.items)[i].items, PathTag(reading))) > 1 =>
                 Decoded.tracks[i]
                   = to_bytes(Last(WithTag(Objects(CurFile.items)[i].items,
                                              PathTag(reading))).units).bytes)

\* C17 witness: a track with the path records "AB" and then "" has been
\* decoded, and its path is empty.
C17_Witness ==
  /\ FileReturned
  /\ reading = "DatabaseFile"
  /\ CurFile.dmg.kind = "none"
  /\ CurFile.items = <<Obj(<<Leaf(TagPfil, <<65, 66>>, <<>>), Leaf(TagPfil, <<>>, <<>>)>>)>>
  /\ heap[1].path = <<>>

\* A step of the decoder inside one file.
DecoderStep == pc = "read" /\ stack # <<>> /\ pc' = "read"
IsRepeatedField == HasHeader /\ Known /\ field.readfunc # "read_string"

\* C18: a step that meets an `otrk` record in the root makes the track
\* sequence one longer by a new track with an empty path at its end (for a
\* database file a Track object no earlier element is), and no step of the
\* decoder changes an element before the last one or makes the sequence
\* shorter; so the record decoded from a well-formed stream has as many
\* tracks as the root has `otrk` records.
C18_AppendsOneTrack ==
  /\ [][(IsRepeatedField /\ pc' = "read") =>
          /\ Decoded'.tracks = Append(Decoded.tracks, <<>>)
          /\ reading = "DatabaseFile" =>
               /\ SubSeq(database_file'.tracks, 1, Len(database_file.tracks))
                    = database_file.tracks
               /\ Last(database_file'.tracks) \notin Range(database_file.tracks)]_vars
  /\ [][DecoderStep =>
          /\ Len(Decoded'.tracks) >= Len(Decoded.tracks)
          /\ \A k \in 1..(Len(Decoded.tracks) - 1) :
               Decoded'.tracks[k] = Decoded.tracks[k]]_vars
  /\ []((FileReturned /\ WellFormed) =>
          Len(Decoded.tracks) = Len(Objects(CurFile.items)))

\* C18 witness: a database file with an empty `otrk` record and then an `otrk`
\* record with the path "AB" has been decoded to two tracks, the first with an
\* empty path.
C18_Witness ==
  /\ FileReturned
  /\ reading = "DatabaseFile"
  /\ CurFile.dmg.kind = "none"
  /\ CurFile.items = <<Obj(<<>>), Obj(<<Leaf(TagPfil, <<65, 66>>, <<>>)>>)>>
  /\ Decoded.tracks = <<<<>>, <<65, 66>>>>

\* C19 (as claimed): at the head of every iteration of a read<T> loop the file
\* position is the call's start plus its bytes_read, so that the next 4 bytes
\* read are the tag of a record.
C19_Aligned == AtLoopHead => pos = SzAdd(Top.start, Top.bytes_read)

\* C20: from the moment the Library is built, path_to_track_ has one entry for
\* each path of a database track, and it is the last track of the Library's
\* list with that path; every track of every crate is the last track of the
\* list with its path; and the list still has every track of the database,
\* duplicates included.
C20_LastDuplicateWins ==
  LibraryBuilt =>
    /\ DOMAIN path_to_track_ = Range(PathsOf(ret.tracks))
    /\ \A i \in 1..Len(ret.tracks) :
         (\A j \in (i + 1)..Len(ret.tracks) :
            heap[ret.tracks[j]].path # heap[ret.tracks[i]].path)
           => path_to_track_[heap[ret.tracks[i]].path] = ret.tracks[i]
    /\ \A k \in 1..Len(ret.crates) : \A n \in 1..Len(ret.crates[k].tracks) :
         \E i \in 1..Len(ret.tracks) :
           /\ ret.tracks[i] = ret.crates[k].tracks[n]
           /\ \A j \in (i + 1)..Len(ret.tracks) :
                heap[ret.tracks[j]].path # heap[ret.tracks[i]].path
    /\ ret.tracks = database_file.tracks
    /\ \A i, j \in 1..Len(ret.tracks) : i # j => ret.tracks[i] # ret.tracks[j]

\* C20 witness: the database has two tracks with the path "a"; the crate refers
\* to "a" twice, and both references are the second track; the first is in the
\* Library's list and in no crate.
C20_Witness ==
  /\ pc = "done"
  /\ PathsOf(ret.tracks) = <<<<97>>, <<97>>>>
  /\ ret.tracks[1] # ret.tracks[2]
  /\ Len(ret.crates) = 1
  /\ ret.crates[1].tracks = <<ret.tracks[2], ret.tracks[2]>>

\* C21: an iteration of a read<T> loop that does not raise an error adds at
\* least the 8 header bytes to the call's bytes_read; every read<T> call that
\* has started, at the root or for an `otrk` payload, comes to its end by
\* returning or by an error, also when an unknown record has moved the file
\* position past the end of the file; and readLibrary as a whole ends.
C21_Terminates ==
  /\ [][(InLoopBody /\ pc' = "read") =>
          /\ Len(stack') >= Len(stack)
          /\ SzLeq(SzAdd(Top.bytes_read, Sz(kTagSize + kRecordSizeSize)),
                   stack'[Len(stack)].bytes_read)]_vars
  /\ \A d \in 1..2 : (pc = "read" /\ Len(stack) = d) ~> (Len(stack) < d)
  /\ <>(pc \in {"done", "error"})

\* C21 witness: read<T> has returned after an unknown record of a declared
\* length of 2^32 - 1 moved the file position past the end of the file.
C21_Witness ==
  /\ FileReturned
  /\ CurFile.dmg.kind = "setlen"
  /\ CurFile.dmg.word = <<255, 255, 255, 255>>
  /\ SzLess(Sz(Len(file)), pos)

=============================================================================
